---- MODULE Spec2Model ----
(***************************************************************************)
(* A model of cover_red.py: the red-marker bounding box (find_red_bbox),   *)
(* the ellipse mask and compositing (mask_red_ellipse), the batch wrapper  *)
(* (process_all_images_in_folder) and the command line (__main__).         *)
(*                                                                         *)
(* A behaviour is a sequence of invocations of the script over one         *)
(* directory.  The directory is the only state that outlives an            *)
(* invocation.  File names are sequences of one-character strings, so that *)
(* Path.stem, Path.suffix, str.endswith, str.upper and the glob patterns   *)
(* are computed as pathlib and str compute them.  Images are arrays        *)
(* img[y][x] of BGR triples, indexed from 0 like numpy arrays.             *)
(*                                                                         *)
(* Path.glob is modelled with the case-sensitive matching pathlib uses on  *)
(* POSIX; the order in which the directory is listed is arbitrary.         *)
(***************************************************************************)
EXTENDS Integers, Sequences, FiniteSets, TLC

VARIABLES
    fs,             \* the directory: file name -> content
    written,        \* every path cv2.imwrite has written so far
    first_files,    \* the files selected by the first batch invocation
    batches,        \* number of batch invocations started
    runs,           \* number of invocations of the script started
    mode,           \* "none", "single" or "batch": the current/last invocation
    pc,             \* "idle", "loop" (inside the for loop) or "exited"
    exit_status,    \* "ok", or the name of the exception that ended the run
    image_files,    \* process_all_images_in_folder: the list iterated over
    idx,            \* position of the for loop in image_files (1-based)
    success_count,  \* process_all_images_in_folder: success_count
    log,            \* the lines printed by the current/last invocation
    calls,          \* the mask_red_ellipse calls of the current/last invocation
    call,           \* the locals of the last mask_red_ellipse call
    \* filter_onlyqa.py and filter_gemini.py
    script,         \* "none", "onlyqa" or "gemini": the filter script run
    filter_pc,      \* "idle", "loop", "done" or "crashed"
    fin,            \* fin.readlines(): the lines of INPUT_FILE
    line_no,        \* position of the for loop in the lines (1-based)
    fout,           \* the lines written to OUTPUT_FILE
    total_count,    \* filter_onlyqa main: total_count
    kept_count,     \* filter_onlyqa main: kept_count
    replies,        \* what the model did on each question asked so far
    stats,          \* the statistics filter_onlyqa prints at the end
    \* make_red_vqa.py process_dataset
    realtime_save,  \* the --realtime_save flag
    img_paths,      \* sorted(img_dir.glob("*.jpg")), images named by rank
    qa_lookup,      \* the image names that have a QA entry
    vqa_pc,         \* "idle", "start", "images", "write", "flush", "done",
                    \* "interrupted"
    img_no,         \* position of the for loop in img_paths (1-based)
    mcq_items,      \* the MCQ items of the image being written
    item_no,        \* position of the inner for loop in mcq_items (1-based)
    is_open,        \* whether the output file is open
    buf,            \* the records written and not yet handed to the system
    disk,           \* the records the output file holds
    completed,      \* the records of the images whose iteration has ended
    \* filter_onlyred.py filter_quiltvqa_bench
    red_env,        \* "ok", "no_input" or "no_dir": which paths exist
    keep_dir,       \* the directory red_circle_keep: file name -> content
    red_pc,         \* "idle", "start", "returned", "loop", "quota", "done"
    infile,         \* the lines of input_file
    line_num,       \* the number of the line the for loop is at (0: none)
    outfile,        \* the lines output_file holds
    total_questions,     \* filter_quiltvqa_bench: total_questions
    filtered_questions,  \* filter_quiltvqa_bench: filtered_questions
    processed_questions, \* filter_quiltvqa_bench: processed_questions
    gemini_answers, \* gemini_answer of every line read so far
    red_stats,      \* the statistics printed at the end
    \* visualize_quilt_1m.py
    quilt_files,    \* image_files: the paths loaded when the script starts
    image_selection_state,  \* file name -> whether the image is selected
    ncalls,         \* number of handler calls so far
    last_call       \* the last handler call and what it returned

coverVars == <<fs, written, first_files, batches, runs, mode, pc, exit_status,
               image_files, idx, success_count, log, calls, call>>

filterVars == <<script, filter_pc, fin, line_no, fout, total_count,
                kept_count, replies, stats>>

vqaVars == <<realtime_save, img_paths, qa_lookup, vqa_pc, img_no, mcq_items,
             item_no, is_open, buf, disk, completed>>

redVars == <<red_env, keep_dir, red_pc, infile, line_num, outfile,
             total_questions, filtered_questions, processed_questions,
             gemini_answers, red_stats>>

quiltVars == <<quilt_files, image_selection_state, ncalls, last_call>>

vars == <<coverVars, filterVars, vqaVars, redVars, quiltVars>>

(***************************************************************************)
(* Bounds of the model.                                                    *)
(***************************************************************************)
MaxPixels == 9     \* the exhaustively enumerated images have w*h <= MaxPixels
MaxFiles == 2      \* files in a sampled directory
MaxRuns == 2       \* invocations of the script in one behaviour

(***************************************************************************)
(* Strings.                                                                *)
(***************************************************************************)
Range(s) == {s[i] : i \in DOMAIN s}

EndsWith(s, suf) ==
    /\ Len(s) >= Len(suf)
    /\ SubSeq(s, Len(s) - Len(suf) + 1, Len(s)) = suf

UpperChar(c) ==
    CASE c = "j" -> "J" [] c = "p" -> "P" [] c = "g" -> "G" [] c = "e" -> "E"
      [] c = "n" -> "N" [] c = "b" -> "B" [] c = "m" -> "M" [] c = "t" -> "T"
      [] c = "i" -> "I" [] c = "f" -> "F" [] OTHER -> c

Upper(s) == [i \in DOMAIN s |-> UpperChar(s[i])]

\* str.lower() over the letters of the file names
LowerChar(c) ==
    CASE c = "J" -> "j" [] c = "P" -> "p" [] c = "G" -> "g" [] c = "E" -> "e"
      [] c = "N" -> "n" [] c = "B" -> "b" [] c = "M" -> "m" [] c = "T" -> "t"
      [] c = "I" -> "i" [] c = "F" -> "f" [] OTHER -> c

Lower(s) == [i \in DOMAIN s |-> LowerChar(s[i])]

\* str.rfind("."), 1-based; 0 when there is no dot
LastDot(name) ==
    LET dots == {i \in DOMAIN name : name[i] = "."}
    IN  IF dots = {} THEN 0 ELSE CHOOSE i \in dots : \A j \in dots : j <= i

\* Path.suffix: the last dot starts a suffix unless it is the first or the
\* last character of the name
Suffix(name) ==
    LET d == LastDot(name)
    IN  IF d > 1 /\ d < Len(name) THEN SubSeq(name, d, Len(name)) ELSE <<>>

\* Path.stem
Stem(name) == SubSeq(name, 1, Len(name) - Len(Suffix(name)))

\* Path.with_stem(stem) == with_name(stem + self.suffix)
WithStem(name, stem) == stem \o Suffix(name)

\* Path.with_suffix(suffix)
WithSuffix(name, suffix) == Stem(name) \o suffix

KeepRedSuffix == <<"_", "k", "e", "e", "p", "_", "r", "e", "d">>
MaskSuffix == <<"_", "m", "a", "s", "k">>
JpgExt == <<".", "j", "p", "g">>

OutPathKeepsStem(name) == WithSuffix(name, JpgExt)

\* image_path.with_stem(image_path.stem + "_keep_red").with_suffix(".jpg")
OutPath(name) == WithSuffix(WithStem(name, Stem(name) \o KeepRedSuffix), JpgExt)

(***************************************************************************)
(* filter_onlyred.py: the lookup of the masked image of a record.          *)
(***************************************************************************)
\* os.path.basename: what follows the last "/"
Basename(path) ==
    LET seps == {i \in DOMAIN path : path[i] = "/"}
        last == IF seps = {} THEN 0
                ELSE CHOOSE i \in seps : \A j \in seps : j <= i
    IN  SubSeq(path, last + 1, Len(path))

\* os.path.splitext(filename)[0]: the last dot starts the extension when a
\* character other than "." stands before it
SplitextRoot(filename) ==
    LET d == LastDot(filename)
    IN  IF d > 0 /\ \E i \in 1..(d - 1) : filename[i] # "."
        THEN SubSeq(filename, 1, d - 1)
        ELSE filename

extract_base_filename(image_path) == SplitextRoot(Basename(image_path))

\* target_filename = f"{base_filename}_keep_red.jpg"
TargetFilename(base_filename) == base_filename \o KeepRedSuffix \o JpgExt

\* find_keep_red_image over the directory of the masked images: the target
\* path when the file exists, None (the empty path) otherwise
find_keep_red_image(base_filename, red_circle_keep_dir) ==
    IF TargetFilename(base_filename) \in DOMAIN red_circle_keep_dir
    THEN TargetFilename(base_filename)
    ELSE <<>>

\* the image path a record holds for an image: the image name under its
\* folder ("red_circle/<name>", with "r" for the folder)
RecordImagePath(name) == <<"r", "/">> \o name

(***************************************************************************)
(* Arrays.  An image is img[y][x] with y in 0..h-1 and x in 0..w-1; every  *)
(* decoded image has at least one row and one column.                      *)
(***************************************************************************)
Max3(a, b, c) == IF a >= b /\ a >= c THEN a ELSE IF b >= c THEN b ELSE c
Min3(a, b, c) == IF a <= b /\ a <= c THEN a ELSE IF b <= c THEN b ELSE c

\* rounding of a quotient of naturals to the nearest integer
RoundDiv(a, b) == (2 * a + b) \div (2 * b)

\* cv2.cvtColor(img, cv2.COLOR_BGR2HSV) on one 8-bit pixel <<b, g, r>>:
\* OpenCV's fixed-point conversion (12 fractional bits), H in 0..179, S and V
\* in 0..255
BGR2HSV(px) ==
    LET b == px[1]
        g == px[2]
        r == px[3]
        v == Max3(b, g, r)
        diff == v - Min3(b, g, r)
        sdiv == IF v = 0 THEN 0 ELSE RoundDiv(255 * 4096, v)
        hdiv == IF diff = 0 THEN 0 ELSE RoundDiv(180 * 4096, 6 * diff)
        s == (diff * sdiv + 2048) \div 4096
        h0 == IF v = r THEN g - b
              ELSE IF v = g THEN b - r + 2 * diff
              ELSE r - g + 4 * diff
        h1 == (h0 * hdiv + 2048) \div 4096
        h == IF h1 < 0 THEN h1 + 180 ELSE h1
    IN  <<h, s, v>>

lower_red == <<0, 245, 240>>
upper_red == <<0, 255, 250>>

\* cv2.inRange on one pixel: 255 iff every channel lies within the bounds
InRange(hsv, lower, upper) ==
    IF \A c \in 1..3 : lower[c] <= hsv[c] /\ hsv[c] <= upper[c] THEN 255 ELSE 0

\* red_mask = cv2.inRange(cv2.cvtColor(img_bgr, BGR2HSV), lower_red, upper_red)
RedMask(img) ==
    [y \in DOMAIN img |->
        [x \in DOMAIN img[y] |-> InRange(BGR2HSV(img[y][x]), lower_red, upper_red)]]

(***************************************************************************)
(* find_red_bbox                                                           *)
(***************************************************************************)
\* np.any(red_mask, axis=1)
rows_has_red(red_mask) ==
    [y \in DOMAIN red_mask |-> \E x \in DOMAIN red_mask[y] : red_mask[y][x] # 0]

\* np.any(red_mask, axis=0)
cols_has_red(red_mask) ==
    [x \in DOMAIN red_mask[0] |-> \E y \in DOMAIN red_mask : red_mask[y][x] # 0]

\* np.argmax of a boolean vector: the first index holding True, and 0 when
\* no entry is True (every entry then holds the maximum)
ArgMax(a) ==
    LET hits == {i \in DOMAIN a : a[i]}
    IN  IF hits = {} THEN 0 ELSE CHOOSE i \in hits : \A j \in hits : i <= j

\* a[::-1]
Reversed(a) ==
    LET n == Cardinality(DOMAIN a) IN [i \in DOMAIN a |-> a[n - 1 - i]]

\* the four scan results, <<x_left, y_top, x_right, y_bottom>>
ScanBox(red_mask) ==
    LET rows == rows_has_red(red_mask)
        cols == cols_has_red(red_mask)
        y_top == ArgMax(rows)
        y_bottom == Cardinality(DOMAIN rows) - 1 - ArgMax(Reversed(rows))
        x_left == ArgMax(cols)
        x_right == Cardinality(DOMAIN cols) - 1 - ArgMax(Reversed(cols))
    IN  <<x_left, y_top, x_right, y_bottom>>

BoxIsDegenerateStrict(box) == box[1] > box[3] \/ box[2] > box[4]

\* if x_left >= x_right or y_top >= y_bottom: raise RuntimeError
BoxIsDegenerate(box) == box[1] >= box[3] \/ box[2] >= box[4]

\* the outcome of find_red_bbox: the box returned, or the RuntimeError raised
find_red_bbox(red_mask) ==
    LET box == ScanBox(red_mask)
    IN  IF BoxIsDegenerate(box)
        THEN [raised |-> TRUE, box |-> <<>>]
        ELSE [raised |-> FALSE, box |-> box]

(***************************************************************************)
(* mask_red_ellipse                                                        *)
(***************************************************************************)
EllipseCenterCeil(box) ==
    <<(box[1] + box[3] + 1) \div 2, (box[2] + box[4] + 1) \div 2>>

\* center = ((x_left + x_right) // 2, (y_top + y_bottom) // 2)
EllipseCenter(box) == <<(box[1] + box[3]) \div 2, (box[2] + box[4]) \div 2>>

EllipseAxesCeil(box) ==
    <<(box[3] - box[1] + 1) \div 2, (box[4] - box[2] + 1) \div 2>>

\* axes = ((x_right - x_left) // 2, (y_bottom - y_top) // 2)
EllipseAxes(box) == <<(box[3] - box[1]) \div 2, (box[4] - box[2]) \div 2>>

\* the pixels cv2.ellipse fills for a full sweep with thickness -1: the
\* lattice points of the closed axis-aligned ellipse; a zero semi-axis
\* leaves a segment, two leave the centre
InEllipse(x, y, center, axes) ==
    LET dx == x - center[1]
        dy == y - center[2]
        ax == axes[1]
        ay == axes[2]
    IN  IF ax = 0 \/ ay = 0
        THEN /\ -ax <= dx /\ dx <= ax
             /\ -ay <= dy /\ dy <= ay
        ELSE dx * dx * ay * ay + dy * dy * ax * ax <= ax * ax * ay * ay

\* ellipse_mask = np.zeros_like(red_mask); cv2.ellipse(ellipse_mask, ...)
EllipseMask(red_mask, center, axes) ==
    [y \in DOMAIN red_mask |->
        [x \in DOMAIN red_mask[y] |->
            IF InEllipse(x, y, center, axes) THEN 255 ELSE 0]]

Black == <<0, 0, 0>>

CompositeInverted(img, ellipse_mask) ==
    [y \in DOMAIN img |->
        [x \in DOMAIN img[y] |->
            IF ellipse_mask[y][x] = 255 THEN Black ELSE img[y][x]]]

\* img_bgr[ellipse_mask != 255] = (0, 0, 0)
Composite(img, ellipse_mask) ==
    [y \in DOMAIN img |->
        [x \in DOMAIN img[y] |->
            IF ellipse_mask[y][x] # 255 THEN Black ELSE img[y][x]]]

\* file contents: what cv2.imread cannot decode, and what cv2.imwrite
\* leaves under a .jpg path
Unreadable == [decodable |-> FALSE]
Decodable(img) == [decodable |-> TRUE, img |-> img]
JpegOf(img) == [decodable |-> TRUE, jpeg |-> TRUE, img |-> img]

\* a 1 x 1 black placeholder image
BlankImg == [y \in 0..0 |-> [x \in 0..0 |-> Black]]

ImReadLenient(fsys, path) ==
    IF path \in DOMAIN fsys
    THEN [none |-> FALSE,
          img |-> IF fsys[path].decodable THEN fsys[path].img ELSE BlankImg]
    ELSE [none |-> TRUE, img |-> <<>>]

\* cv2.imread: the decoded image, or None for a missing or undecodable file
ImRead(fsys, path) ==
    IF path \in DOMAIN fsys /\ fsys[path].decodable
    THEN [none |-> FALSE, img |-> fsys[path].img]
    ELSE [none |-> TRUE, img |-> <<>>]

MaskRedEllipseIgnoringDetection(fsys, image_path) ==
    LET rd == ImRead(fsys, image_path)
    IN  IF rd.none
        THEN [image_path |-> image_path, exc |-> "FileNotFoundError",
              img_in |-> <<>>, red_mask |-> <<>>, bbox |-> <<>>,
              center |-> <<>>, axes |-> <<>>, ellipse_mask |-> <<>>,
              img_bgr |-> <<>>, out_path |-> <<>>]
        ELSE LET red_mask == RedMask(rd.img)
                 box == ScanBox(red_mask)
                 center == EllipseCenter(box)
                 axes == EllipseAxes(box)
                 ellipse_mask == EllipseMask(red_mask, center, axes)
             IN  [image_path |-> image_path, exc |-> "none",
                  img_in |-> rd.img, red_mask |-> red_mask,
                  bbox |-> box, center |-> center, axes |-> axes,
                  ellipse_mask |-> ellipse_mask,
                  img_bgr |-> Composite(rd.img, ellipse_mask),
                  out_path |-> OutPath(image_path)]

\* one call of mask_red_ellipse: the exception it raises ("none" when it
\* returns) and the value of each local at the point it stopped
mask_red_ellipse(fsys, image_path) ==
    LET rd == ImRead(fsys, image_path)
        blank == [image_path |-> image_path, exc |-> "FileNotFoundError",
                  img_in |-> <<>>, red_mask |-> <<>>, bbox |-> <<>>,
                  center |-> <<>>, axes |-> <<>>, ellipse_mask |-> <<>>,
                  img_bgr |-> <<>>, out_path |-> <<>>]
    IN  IF rd.none THEN blank
        ELSE LET red_mask == RedMask(rd.img)
                 found == find_red_bbox(red_mask)
             IN  IF found.raised
                 THEN [blank EXCEPT !.exc = "RuntimeError", !.img_in = rd.img,
                                    !.red_mask = red_mask]
                 ELSE LET center == EllipseCenter(found.box)
                          axes == EllipseAxes(found.box)
                          ellipse_mask == EllipseMask(red_mask, center, axes)
                      IN  [image_path |-> image_path, exc |-> "none",
                           img_in |-> rd.img, red_mask |-> red_mask,
                           bbox |-> found.box, center |-> center, axes |-> axes,
                           ellipse_mask |-> ellipse_mask,
                           img_bgr |-> Composite(rd.img, ellipse_mask),
                           out_path |-> OutPath(image_path)]

\* cv2.imwrite(str(out_path), img_bgr) of a call that returned
ImWrite(fsys, r) ==
    [p \in DOMAIN fsys \cup {r.out_path} |->
        IF p = r.out_path THEN JpegOf(r.img_bgr) ELSE fsys[p]]

(***************************************************************************)
(* process_all_images_in_folder                                            *)
(***************************************************************************)
image_extensions ==
    << <<".", "j", "p", "g">>, <<".", "j", "p", "e", "g">>,
       <<".", "p", "n", "g">>, <<".", "b", "m", "p">>,
       <<".", "t", "i", "f", "f">> >>

\* folder_path.glob(f'*{ext}') over a directory listed in the order `listing`
Glob(listing, ext) == SelectSeq(listing, LAMBDA n : EndsWith(n, ext))

\* the loop over image_extensions, from extension i on
RECURSIVE GlobAll(_, _)
GlobAll(listing, i) ==
    IF i > Len(image_extensions) THEN <<>>
    ELSE Glob(listing, image_extensions[i])
         \o Glob(listing, Upper(image_extensions[i]))
         \o GlobAll(listing, i + 1)

IsProcessedMaskOnly(stem) == EndsWith(stem, MaskSuffix)

\* img.stem.endswith('_mask') or img.stem.endswith('_keep_red')
IsProcessed(stem) == EndsWith(stem, MaskSuffix) \/ EndsWith(stem, KeepRedSuffix)

\* image_files after the filter of already processed images
Discover(listing) ==
    SelectSeq(GlobAll(listing, 1), LAMBDA n : ~IsProcessed(Stem(n)))

\* the orders in which a directory can be listed
RECURSIVE Listings(_)
Listings(names) ==
    IF names = {} THEN {<<>>}
    ELSE UNION {{<<n>> \o l : l \in Listings(names \ {n})} : n \in names}

SuccessCountAlways(count, exc) == count + 1

\* success_count += 1 is skipped when mask_red_ellipse raises
SuccessCountAfter(count, exc) == IF exc = "none" THEN count + 1 ELSE count

LoopStopsOnError(i, n, exc) == i < n /\ exc = "none"

\* the for loop goes on to the next image whatever the outcome of this one
LoopContinues(i, n, exc) == i < n

\* the line printed for one image of the batch
ImageLine(name, r) ==
    IF r.exc = "none"
    THEN [kind |-> "ok", name |-> name, bbox |-> r.bbox, saved |-> r.out_path]
    ELSE [kind |-> "fail", name |-> name, error |-> r.exc]

SummaryOnlyOnSuccess(lines, count, total) ==
    IF count > 0
    THEN Append(lines, [kind |-> "summary", succeeded |-> count, total |-> total])
    ELSE lines

\* print(f"Processing complete! Successfully processed {success_count}/{len(image_files)} images.")
PrintSummary(lines, count, total) ==
    Append(lines, [kind |-> "summary", succeeded |-> count, total |-> total])

(***************************************************************************)
(* The inputs: directories and images.                                     *)
(***************************************************************************)
Red == <<0, 0, 250>>            \* BGR of RGB (250, 0, 0): inside the range
White == <<255, 255, 255>>
Palette == {Red, White}

\* every image over Palette of at most MaxPixels pixels
AllImages ==
    UNION {[0..(h - 1) -> [0..(w - 1) -> Palette]] :
             <<w, h>> \in {d \in (1..MaxPixels) \X (1..MaxPixels) :
                             d[1] * d[2] <= MaxPixels}}

\* a 3 x 3 image: a red ring around a white centre
MarkerImg == [y \in 0..2 |-> [x \in 0..2 |->
                 IF x = 1 /\ y = 1 THEN White ELSE Red]]

\* a 2 x 2 image whose red pixels fill the left column
LineImg == [y \in 0..1 |-> [x \in 0..1 |-> IF x = 0 THEN Red ELSE White]]

\* a 112 x 122 image with a red marker filling columns 10..110, rows 20..120
GeomImg == [y \in 0..121 |-> [x \in 0..111 |->
               IF 10 <= x /\ x <= 110 /\ 20 <= y /\ y <= 120
               THEN Red ELSE White]]

SampleContents == {Unreadable, Decodable(MarkerImg), Decodable(LineImg)}

A_jpg == <<"a", ".", "j", "p", "g">>
A_png == <<"a", ".", "p", "n", "g">>
B_JPG == <<"b", ".", "J", "P", "G">>
C_Jpg == <<"c", ".", "J", "p", "g">>
A_keep_red_jpg == <<"a">> \o KeepRedSuffix \o JpgExt
D_mask_png == <<"d">> \o MaskSuffix \o <<".", "p", "n", "g">>
Z_png == <<"z", ".", "p", "n", "g">>     \* never a file of the directory

SampleNames == {A_jpg, A_png, B_JPG, C_Jpg, A_keep_red_jpg, D_mask_png}

SampledDirs ==
    UNION {[D -> SampleContents] :
             D \in {D \in SUBSET SampleNames : Cardinality(D) <= MaxFiles}}

ExhaustiveDirs ==
    {[n \in {A_png} |-> Decodable(img)] : img \in AllImages \cup {GeomImg}}

A_b_png == <<"a", ".", "b", ".", "p", "n", "g">>
Scan == <<"s", "c", "a", "n">>              \* a name without extension
A_dot == <<"a", ".">>                        \* a name ending with a dot

PathNames == {A_jpg, A_png, B_JPG, A_b_png, Scan, A_dot, A_keep_red_jpg}

\* the directories of one to MaxFiles files named from PathNames
PathDirs ==
    UNION {[D -> SampleContents] :
             D \in {D \in SUBSET PathNames :
                       D # {} /\ Cardinality(D) <= MaxFiles}}

NoCall == [image_path |-> <<>>, exc |-> "nocall", img_in |-> <<>>,
           red_mask |-> <<>>, bbox |-> <<>>, center |-> <<>>, axes |-> <<>>,
           ellipse_mask |-> <<>>, img_bgr |-> <<>>, out_path |-> <<>>]

InitWith(dirs) ==
    /\ fs \in dirs
    /\ written = {}
    /\ first_files = {}
    /\ batches = 0
    /\ runs = 0
    /\ mode = "none"
    /\ pc = "idle"
    /\ exit_status = "ok"
    /\ image_files = <<>>
    /\ idx = 0
    /\ success_count = 0
    /\ log = <<>>
    /\ calls = <<>>
    /\ call = NoCall

\* no filter script is run
FilterIdle ==
    /\ script = "none"
    /\ filter_pc = "idle"
    /\ fin = <<>>
    /\ line_no = 0
    /\ fout = <<>>
    /\ total_count = 0
    /\ kept_count = 0
    /\ replies = <<>>
    /\ stats = <<>>

\* make_red_vqa is not run
VqaIdle ==
    /\ realtime_save = FALSE
    /\ img_paths = <<>>
    /\ qa_lookup = {}
    /\ vqa_pc = "idle"
    /\ img_no = 0
    /\ mcq_items = <<>>
    /\ item_no = 0
    /\ is_open = FALSE
    /\ buf = <<>>
    /\ disk = <<>>
    /\ completed = <<>>

\* filter_onlyred is not run
RedIdle ==
    /\ red_env = "ok"
    /\ keep_dir = <<>>
    /\ red_pc = "idle"
    /\ infile = <<>>
    /\ line_num = 0
    /\ outfile = <<>>
    /\ total_questions = 0
    /\ filtered_questions = 0
    /\ processed_questions = 0
    /\ gemini_answers = <<>>
    /\ red_stats = <<>>

\* the viewer is not started
QuiltIdle ==
    /\ quilt_files = <<>>
    /\ image_selection_state = <<>>
    /\ ncalls = 0
    /\ last_call = <<>>

\* the batch and single-image invocations over the sampled directories
Init == InitWith(SampledDirs) /\ FilterIdle /\ VqaIdle /\ RedIdle /\ QuiltIdle

\* single-image invocations over every small image
InitPixels ==
    InitWith(ExhaustiveDirs) /\ FilterIdle /\ VqaIdle /\ RedIdle /\ QuiltIdle

\* single-image invocations over file names of every shape
InitPaths ==
    InitWith(PathDirs) /\ FilterIdle /\ VqaIdle /\ RedIdle /\ QuiltIdle

(***************************************************************************)
(* __main__ with one argument other than --batch: mask_red_ellipse on the  *)
(* path, then the two prints; an exception ends the process before them.   *)
(***************************************************************************)
MainPrintsAlways(r) ==
    <<[kind |-> "bbox", bbox |-> r.bbox], [kind |-> "saved", saved |-> r.out_path]>>

\* the two prints after mask_red_ellipse returned; none when it raised
MainPrints(r) ==
    IF r.exc = "none"
    THEN <<[kind |-> "bbox", bbox |-> r.bbox],
           [kind |-> "saved", saved |-> r.out_path]>>
    ELSE <<>>

SingleImage(path) ==
    /\ pc # "loop"
    /\ runs < MaxRuns
    /\ LET r == mask_red_ellipse(fs, path)
       IN  /\ call' = r
           /\ calls' = <<[path |-> path, exc |-> r.exc]>>
           /\ log' = MainPrints(r)
           /\ IF r.exc = "none"
              THEN /\ fs' = ImWrite(fs, r)
                   /\ written' = written \cup {r.out_path}
                   /\ exit_status' = "ok"
              ELSE /\ UNCHANGED <<fs, written>>
                   /\ exit_status' = r.exc
    /\ runs' = runs + 1
    /\ mode' = "single"
    /\ pc' = "exited"
    /\ image_files' = <<>>
    /\ idx' = 0
    /\ success_count' = 0
    /\ UNCHANGED <<first_files, batches>>
    /\ UNCHANGED <<filterVars, vqaVars, redVars, quiltVars>>

(***************************************************************************)
(* __main__ with --batch: process_all_images_in_folder up to the for loop. *)
(***************************************************************************)
BatchStart ==
    /\ pc # "loop"
    /\ runs < MaxRuns
    /\ \E files \in {Discover(listing) : listing \in Listings(DOMAIN fs)} :
             /\ image_files' = files
             /\ first_files' = IF batches = 0 THEN Range(files) ELSE first_files
             /\ IF files = <<>>
                THEN /\ log' = <<[kind |-> "nofiles"]>>
                     /\ pc' = "exited"
                     /\ idx' = 0
                ELSE /\ log' = <<[kind |-> "found", total |-> Len(files)]>>
                     /\ pc' = "loop"
                     /\ idx' = 1
    /\ runs' = runs + 1
    /\ batches' = batches + 1
    /\ mode' = "batch"
    /\ exit_status' = "ok"
    /\ success_count' = 0
    /\ calls' = <<>>
    /\ call' = NoCall
    /\ UNCHANGED <<fs, written>>
    /\ UNCHANGED <<filterVars, vqaVars, redVars, quiltVars>>

(***************************************************************************)
(* One iteration of the for loop: the try/except around mask_red_ellipse;  *)
(* the iteration on the last image runs on into the summary print.         *)
(***************************************************************************)
BatchStep ==
    /\ pc = "loop"
    /\ idx <= Len(image_files)
    /\ LET img_path == image_files[idx]
           r == mask_red_ellipse(fs, img_path)
           count == SuccessCountAfter(success_count, r.exc)
           logged == Append(log, ImageLine(img_path, r))
       IN  /\ call' = r
           /\ calls' = Append(calls, [path |-> img_path, exc |-> r.exc])
           /\ IF r.exc = "none"
              THEN /\ fs' = ImWrite(fs, r)
                   /\ written' = written \cup {r.out_path}
              ELSE UNCHANGED <<fs, written>>
           /\ success_count' = count
           /\ IF LoopContinues(idx, Len(image_files), r.exc)
              THEN /\ log' = logged
                   /\ pc' = "loop"
              ELSE /\ log' = PrintSummary(logged, count, Len(image_files))
                   /\ pc' = "exited"
    /\ idx' = idx + 1
    /\ UNCHANGED <<first_files, batches, runs, mode, exit_status, image_files>>
    /\ UNCHANGED <<filterVars, vqaVars, redVars, quiltVars>>

\* sys.argv[1]: a file of the directory that is no output of an earlier
\* invocation, or a path that does not exist
Arguments == (DOMAIN fs \ written) \cup {Z_png}

NextSingle == \E path \in Arguments : SingleImage(path)

Next ==
    \/ \E path \in Arguments : SingleImage(path)
    \/ BatchStart
    \/ BatchStep

Spec == Init /\ [][Next]_vars

SpecPixels == InitPixels /\ [][NextSingle]_vars

SpecPaths == InitPaths /\ [][NextSingle]_vars

(***************************************************************************)
(* filter_onlyqa.py and filter_gemini.py: the questions the model answers  *)
(* from the text alone are filtered out.  A line of the input is a record  *)
(* in some JSON spelling; the text of a reply is a sequence of characters. *)
(***************************************************************************)
MaxLines == 2      \* lines of INPUT_FILE

\* json.loads(line): the record of a line, whatever its spacing
Loads(line) == line.item

\* json.dumps(item, ensure_ascii=False) + '\n': the line in json's own spacing
Dumps(item) == [form |-> "canonical", item |-> item]

\* insertion of x into a sorted list
Insert(x, s) ==
    LET k == Cardinality({i \in DOMAIN s : s[i] <= x})
    IN  SubSeq(s, 1, k) \o <<x>> \o SubSeq(s, k + 1, Len(s))

RECURSIVE sorted(_)
sorted(s) ==
    IF s = <<>> THEN <<>>
    ELSE Insert(s[Len(s)], sorted(SubSeq(s, 1, Len(s) - 1)))

Whitespace == {" ", "\n"}

\* str.strip()
RECURSIVE Strip(_)
Strip(text) ==
    IF text = <<>> THEN <<>>
    ELSE IF text[1] \in Whitespace THEN Strip(Tail(text))
    ELSE IF text[Len(text)] \in Whitespace
         THEN Strip(SubSeq(text, 1, Len(text) - 1))
    ELSE text

\* str.lower() over the letters of the replies
LowerLetter(c) ==
    CASE c = "C" -> "c" [] c = "A" -> "a" [] c = "N" -> "n" [] c = "O" -> "o"
      [] c = "T" -> "t" [] c = "S" -> "s" [] c = "W" -> "w" [] c = "E" -> "e"
      [] c = "R" -> "r" [] c = "Q" -> "q" [] c = "U" -> "u" [] OTHER -> c

TextLower(text) == [i \in DOMAIN text |-> LowerLetter(text[i])]

\* needle in text
Contains(text, needle) ==
    \E i \in 1..(Len(text) - Len(needle) + 1) :
        SubSeq(text, i, i + Len(needle) - 1) = needle

CannotAnswerText ==
    <<"c", "a", "n", "n", "o", "t", " ", "a", "n", "s", "w", "e", "r">>

DigitChars == {"0", "1", "2", "3", "4", "5", "6", "7", "8", "9"}

DigitValue(c) ==
    CASE c = "0" -> 0 [] c = "1" -> 1 [] c = "2" -> 2 [] c = "3" -> 3
      [] c = "4" -> 4 [] c = "5" -> 5 [] c = "6" -> 6 [] c = "7" -> 7
      [] c = "8" -> 8 [] c = "9" -> 9

\* int(n) of a run of digits
RECURSIVE IntOf(_)
IntOf(run) ==
    IF run = <<>> THEN 0
    ELSE 10 * IntOf(SubSeq(run, 1, Len(run) - 1)) + DigitValue(run[Len(run)])

\* [int(n) for n in re.findall(r'\d+', text)]: the maximal runs of digits
\* from position i on, left to right; run holds the digits of the run read
RECURSIVE DigitRuns(_, _, _)
DigitRuns(text, i, run) ==
    LET closed == IF run = <<>> THEN <<>> ELSE <<IntOf(run)>>
    IN  IF i > Len(text) THEN closed
        ELSE IF text[i] \in DigitChars
             THEN DigitRuns(text, i + 1, Append(run, text[i]))
        ELSE closed \o DigitRuns(text, i + 1, <<>>)

Raised == [kind |-> "raised", nums |-> <<>>]

\* filter_gemini.py call_gemini: the sorted numbers of the reply; a failing
\* request raises
call_gemini(reply) ==
    IF reply.raises THEN Raised
    ELSE [kind |-> "nums", nums |-> sorted(DigitRuns(Strip(reply.text), 1, <<>>))]

\* filter_onlyqa.py call_gemini: 'cannot_answer' when the reply says so,
\* else the sorted numbers of the reply; a failing request raises
call_gemini_onlyqa(reply) ==
    IF reply.raises THEN Raised
    ELSE LET text == Strip(reply.text)
         IN  IF Contains(TextLower(text), CannotAnswerText)
             THEN [kind |-> "cannot_answer", nums |-> <<>>]
             ELSE [kind |-> "nums", nums |-> sorted(DigitRuns(text, 1, <<>>))]

DropOnError(item) == <<>>

\* the except branch of both scripts: the question is written
KeepOnError(item) == <<Dumps(item)>>

OnlyqaDropsCannotAnswer(item, gemini_answer, answer_index) ==
    CASE gemini_answer.kind = "raised" -> KeepOnError(item)
      [] gemini_answer.kind = "nums" /\ gemini_answer.nums # answer_index ->
            <<Dumps(item)>>
      [] OTHER -> <<>>

\* filter_onlyqa.py main: what one question adds to the output
OnlyqaWrites(item, gemini_answer, answer_index) ==
    CASE gemini_answer.kind = "raised" -> KeepOnError(item)
      [] gemini_answer.kind = "cannot_answer" -> <<Dumps(item)>>
      [] gemini_answer.kind = "nums" /\ gemini_answer.nums = answer_index -> <<>>
      [] OTHER -> <<Dumps(item)>>

\* filter_onlyqa.py main: what one question adds to kept_count
OnlyqaKept(gemini_answer, answer_index) ==
    CASE gemini_answer.kind = "raised" -> 1
      [] gemini_answer.kind = "cannot_answer" -> 1
      [] gemini_answer.kind = "nums" /\ gemini_answer.nums = answer_index -> 0
      [] OTHER -> 1

\* filter_gemini.py main: what one question adds to the output
GeminiWrites(item, gemini_answer, answer_index) ==
    CASE gemini_answer.kind = "raised" -> KeepOnError(item)
      [] gemini_answer.nums = answer_index -> <<>>
      [] OTHER -> <<Dumps(item)>>

\* the records of the input
Items ==
    {[question |-> "q0", answer_index |-> <<0>>],
     [question |-> "q1", answer_index |-> <<1, 0>>],
     [question |-> "q2", answer_index |-> <<2>>]}

\* the lines of the input: every record in json's spacing, one record
\* without spaces as well, and a line that json.loads rejects
InputLines ==
    {[form |-> "canonical", item |-> it] : it \in Items}
      \cup {[form |-> "compact",
             item |-> [question |-> "q0", answer_index |-> <<0>>]],
            [form |-> "malformed", item |-> <<>>]}

InputFiles == UNION {[1..n -> InputLines] : n \in 0..MaxLines}

\* the texts the model replies with
T_0 == <<"[", "0", "]">>
T_1_0 == <<"[", "1", ",", " ", "0", "]">>
T_0_0 == <<"0", " ", "0">>
T_12 == <<" ", "1", "2", "\n">>
T_cannot == <<"c", "a", "n", "n", "o", "t", " ", "a", "n", "s", "w", "e", "r">>
T_Cannot_0 ==
    <<"0", "?", " ", "C", "a", "n", "n", "o", "t", " ", "A", "N", "S", "W",
      "E", "R", ".">>
T_none == <<"n", "o", "n", "e">>

Replies ==
    {[raises |-> TRUE, text |-> <<>>]}
      \cup {[raises |-> FALSE, text |-> t] :
              t \in {T_0, T_1_0, T_0_0, T_12, T_cannot, T_Cannot_0, T_none}}

\* one of the two scripts is started on an input file
InitFilter ==
    /\ InitWith({<<>>})
    /\ VqaIdle
    /\ RedIdle
    /\ QuiltIdle
    /\ script \in {"onlyqa", "gemini"}
    /\ filter_pc = "loop"
    /\ fin \in InputFiles
    /\ line_no = 1
    /\ fout = <<>>
    /\ total_count = 0
    /\ kept_count = 0
    /\ replies = <<>>
    /\ stats = <<>>

\* filter_onlyqa.py main: one iteration of the for loop
OnlyqaLine ==
    /\ script = "onlyqa"
    /\ filter_pc = "loop"
    /\ line_no <= Len(fin)
    /\ total_count' = total_count + 1
    /\ IF fin[line_no].form = "malformed"
       THEN /\ filter_pc' = "crashed"
            /\ UNCHANGED <<line_no, fout, kept_count, replies>>
       ELSE \E reply \in Replies :
              LET item == Loads(fin[line_no])
                  answer_index == sorted(item.answer_index)
                  gemini_answer == call_gemini_onlyqa(reply)
              IN  /\ fout' = fout \o OnlyqaWrites(item, gemini_answer, answer_index)
                  /\ kept_count' = kept_count + OnlyqaKept(gemini_answer, answer_index)
                  /\ replies' = Append(replies, reply)
                  /\ line_no' = line_no + 1
                  /\ filter_pc' = "loop"
    /\ UNCHANGED <<script, fin, stats>>
    /\ UNCHANGED <<coverVars, vqaVars, redVars, quiltVars>>

\* filter_onlyqa.py main: the statistics after the loop
OnlyqaFinish ==
    /\ script = "onlyqa"
    /\ filter_pc = "loop"
    /\ line_no > Len(fin)
    /\ stats' = <<[total |-> total_count, kept |-> kept_count]>>
    /\ filter_pc' = "done"
    /\ UNCHANGED <<script, fin, line_no, fout, total_count, kept_count, replies>>
    /\ UNCHANGED <<coverVars, vqaVars, redVars, quiltVars>>

\* filter_gemini.py main: one iteration of the for loop
GeminiLine ==
    /\ script = "gemini"
    /\ filter_pc = "loop"
    /\ line_no <= Len(fin)
    /\ IF fin[line_no].form = "malformed"
       THEN /\ filter_pc' = "crashed"
            /\ UNCHANGED <<line_no, fout, replies>>
       ELSE \E reply \in Replies :
              LET item == Loads(fin[line_no])
                  answer_index == sorted(item.answer_index)
                  gemini_answer == call_gemini(reply)
              IN  /\ fout' = fout \o GeminiWrites(item, gemini_answer, answer_index)
                  /\ replies' = Append(replies, reply)
                  /\ line_no' = line_no + 1
                  /\ filter_pc' = "loop"
    /\ UNCHANGED <<script, fin, total_count, kept_count, stats>>
    /\ UNCHANGED <<coverVars, vqaVars, redVars, quiltVars>>

\* filter_gemini.py main: the end of the loop
GeminiFinish ==
    /\ script = "gemini"
    /\ filter_pc = "loop"
    /\ line_no > Len(fin)
    /\ filter_pc' = "done"
    /\ UNCHANGED <<script, fin, line_no, fout, total_count, kept_count, replies,
                   stats>>
    /\ UNCHANGED <<coverVars, vqaVars, redVars, quiltVars>>

NextFilter ==
    \/ OnlyqaLine
    \/ OnlyqaFinish
    \/ GeminiLine
    \/ GeminiFinish

SpecFilter == InitFilter /\ [][NextFilter]_vars

(***************************************************************************)
(* make_red_vqa.py process_dataset: the MCQ records of every image with a  *)
(* QA entry are written to the output file, image by image in realtime     *)
(* mode, through one open file in batch mode.  A write puts a record in    *)
(* the buffer of the open file; flush, close and a full buffer hand the    *)
(* buffer to the system.                                                   *)
(***************************************************************************)
MaxImages == 2     \* *.jpg files of img_dir
MaxItems == 2      \* MCQ items the model returns for one image

\* sorted(...) of a set of image names
SortedList(S) ==
    CHOOSE f \in [1..Cardinality(S) -> S] :
        \A i, j \in 1..Cardinality(S) : i < j => f[i] < f[j]

\* what ask_llm_for_mcq does: it raises, or returns a list of n items
LlmOutcomes ==
    {[raises |-> TRUE, items |-> <<>>]}
      \cup {[raises |-> FALSE, items |-> [j \in 1..n |-> j]] : n \in 0..MaxItems}

\* {"image_path": ..., **item}
McqRecord(img_path, item) == [image_path |-> img_path, item |-> item]

\* a record an earlier run left in the output file
StaleRecord == McqRecord(0, 1)

OpenTruncates(content) == <<>>

\* open(out_path, "a"): the content of the file stays
OpenAppend(content) == content

InitVqa ==
    /\ InitWith({<<>>})
    /\ FilterIdle
    /\ RedIdle
    /\ QuiltIdle
    /\ realtime_save \in BOOLEAN
    /\ img_paths \in {SortedList(S) : S \in SUBSET (1..MaxImages)}
    /\ qa_lookup \in SUBSET (1..MaxImages)
    /\ vqa_pc = "start"
    /\ img_no = 0
    /\ mcq_items = <<>>
    /\ item_no = 0
    /\ is_open = FALSE
    /\ buf = <<>>
    /\ disk \in {<<>>, <<StaleRecord>>}
    /\ completed = <<>>

\* up to the for loop: batch mode opens the output file for writing
VqaStart ==
    /\ vqa_pc = "start"
    /\ IF realtime_save
       THEN UNCHANGED <<is_open, disk>>
       ELSE /\ is_open' = TRUE
            /\ disk' = <<>>
    /\ img_no' = 1
    /\ vqa_pc' = "images"
    /\ UNCHANGED <<realtime_save, img_paths, qa_lookup, mcq_items, item_no, buf,
                   completed>>
    /\ UNCHANGED <<coverVars, filterVars, redVars, quiltVars>>

\* one image up to its first write: skipped without a QA entry, when the
\* model call raises and when it returns no item; realtime mode opens the
\* output file for appending
VqaImage ==
    /\ vqa_pc = "images"
    /\ img_no <= Len(img_paths)
    /\ \E outcome \in LlmOutcomes :
          IF \/ img_paths[img_no] \notin qa_lookup
             \/ outcome.raises
             \/ outcome.items = <<>>
          THEN /\ img_no' = img_no + 1
               /\ UNCHANGED <<vqa_pc, mcq_items, item_no, is_open, disk>>
          ELSE /\ mcq_items' = outcome.items
               /\ item_no' = 1
               /\ vqa_pc' = "write"
               /\ IF realtime_save
                  THEN /\ is_open' = TRUE
                       /\ disk' = OpenAppend(disk)
                  ELSE UNCHANGED <<is_open, disk>>
               /\ UNCHANGED img_no
    /\ UNCHANGED <<realtime_save, img_paths, qa_lookup, buf, completed>>
    /\ UNCHANGED <<coverVars, filterVars, redVars, quiltVars>>

\* fout.write of one record
VqaWrite ==
    /\ vqa_pc = "write"
    /\ item_no <= Len(mcq_items)
    /\ buf' = Append(buf, McqRecord(img_paths[img_no], mcq_items[item_no]))
    /\ IF realtime_save
       THEN /\ vqa_pc' = "flush"
            /\ UNCHANGED item_no
       ELSE /\ item_no' = item_no + 1
            /\ UNCHANGED vqa_pc
    /\ UNCHANGED <<realtime_save, img_paths, qa_lookup, img_no, mcq_items,
                   is_open, disk, completed>>
    /\ UNCHANGED <<coverVars, filterVars, redVars, quiltVars>>

\* fout.flush() after the write, in realtime mode
VqaFlush ==
    /\ vqa_pc = "flush"
    /\ disk' = disk \o buf
    /\ buf' = <<>>
    /\ item_no' = item_no + 1
    /\ vqa_pc' = "write"
    /\ UNCHANGED <<realtime_save, img_paths, qa_lookup, img_no, mcq_items,
                   is_open, completed>>
    /\ UNCHANGED <<coverVars, filterVars, redVars, quiltVars>>

\* the end of the inner loop: realtime mode closes the file
VqaEndImage ==
    /\ vqa_pc = "write"
    /\ item_no > Len(mcq_items)
    /\ IF realtime_save
       THEN /\ disk' = disk \o buf
            /\ buf' = <<>>
            /\ is_open' = FALSE
       ELSE UNCHANGED <<disk, buf, is_open>>
    /\ completed' = completed \o
          [j \in DOMAIN mcq_items |-> McqRecord(img_paths[img_no], mcq_items[j])]
    /\ img_no' = img_no + 1
    /\ vqa_pc' = "images"
    /\ UNCHANGED <<realtime_save, img_paths, qa_lookup, mcq_items, item_no>>
    /\ UNCHANGED <<coverVars, filterVars, redVars, quiltVars>>

\* the end of the outer loop: batch mode closes the file
VqaFinish ==
    /\ vqa_pc = "images"
    /\ img_no > Len(img_paths)
    /\ IF realtime_save
       THEN UNCHANGED <<disk, buf, is_open>>
       ELSE /\ disk' = disk \o buf
            /\ buf' = <<>>
            /\ is_open' = FALSE
    /\ vqa_pc' = "done"
    /\ UNCHANGED <<realtime_save, img_paths, qa_lookup, img_no, mcq_items,
                   item_no, completed>>
    /\ UNCHANGED <<coverVars, filterVars, redVars, quiltVars>>

\* the buffer of the open file is full and handed to the system
VqaSpill ==
    /\ vqa_pc \in {"images", "write", "flush"}
    /\ is_open
    /\ buf # <<>>
    /\ disk' = disk \o buf
    /\ buf' = <<>>
    /\ UNCHANGED <<realtime_save, img_paths, qa_lookup, vqa_pc, img_no,
                   mcq_items, item_no, is_open, completed>>
    /\ UNCHANGED <<coverVars, filterVars, redVars, quiltVars>>

\* the run is interrupted: by an exception, which leaves the with block and
\* closes the open file, or by the death of the process, which loses the
\* buffer
VqaInterrupt ==
    /\ vqa_pc \in {"start", "images", "write", "flush"}
    /\ \E killed \in BOOLEAN :
          IF killed \/ ~is_open
          THEN UNCHANGED disk
          ELSE disk' = disk \o buf
    /\ buf' = <<>>
    /\ is_open' = FALSE
    /\ vqa_pc' = "interrupted"
    /\ UNCHANGED <<realtime_save, img_paths, qa_lookup, img_no, mcq_items,
                   item_no, completed>>
    /\ UNCHANGED <<coverVars, filterVars, redVars, quiltVars>>

NextVqa ==
    \/ VqaStart
    \/ VqaImage
    \/ VqaWrite
    \/ VqaFlush
    \/ VqaEndImage
    \/ VqaFinish
    \/ VqaSpill
    \/ VqaInterrupt

SpecVqa == InitVqa /\ [][NextVqa]_vars

(***************************************************************************)
(* filter_onlyred.py filter_quiltvqa_bench: the questions the model        *)
(* answers with an option of answer_index, given the masked image, are     *)
(* written to the output; a quota error stops the run.                     *)
(***************************************************************************)
MaxRedLines == 3   \* lines of input_file

\* the result of call_gemini_api: None, "QUOTA_EXCEEDED" or an integer
AnswerNone == [kind |-> "none", value |-> 0]
AnswerQuota == [kind |-> "quota", value |-> 0]
AnswerInt(n) == [kind |-> "int", value |-> n]

\* gemini_answer of a line that did not reach the call
NotAsked == [kind |-> "notasked", value |-> 0]

Code429 == <<"4", "2", "9">>
QuotaText == <<"q", "u", "o", "t", "a">>

\* call_gemini_api: Image.open, generate_content, the first run of digits
\* of the reply; every exception gives None, but one whose message holds
\* "429" and "quota" gives "QUOTA_EXCEEDED"
call_gemini_api(dir, image_path, reply) ==
    IF ~dir[image_path].decodable THEN AnswerNone
    ELSE IF reply.kind = "error"
         THEN IF /\ Contains(reply.text, Code429)
                 /\ Contains(TextLower(reply.text), QuotaText)
              THEN AnswerQuota
              ELSE AnswerNone
    ELSE IF reply.text = <<>> THEN AnswerNone
    ELSE LET found == DigitRuns(Strip(reply.text), 1, <<>>)
         IN  IF found = <<>> THEN AnswerNone ELSE AnswerInt(found[1])

AnswerAlwaysMatches(gemini_answer, answer_index) == TRUE

\* gemini_answer in answer_index, for a list answer_index
AnswerMatches(gemini_answer, answer_index) ==
    \E i \in DOMAIN answer_index.value : answer_index.value[i] = gemini_answer

\* not answer_index: an empty list or the number 0
AnswerIndexFalsy(answer_index) ==
    IF answer_index.type = "list" THEN answer_index.value = <<>>
    ELSE answer_index.value[1] = 0

\* the "continue" of the loop before the call: no image field, not a .jpg
\* path, no masked image, a missing field
RedSkips(data, dir) ==
    \/ data.image = <<>>
    \/ ~EndsWith(Lower(data.image), JpgExt)
    \/ find_keep_red_image(extract_base_filename(data.image), dir) = <<>>
    \/ ~data.question
    \/ ~data.options
    \/ AnswerIndexFalsy(data.answer_index)

\* the body of the for loop on one line, given what the model does when it
\* is called: the values of the locals and of the output after it
RedIteration(line, reply) ==
    LET same == [pc |-> "loop", total |-> total_questions,
                 processed |-> processed_questions,
                 filtered |-> filtered_questions,
                 out |-> outfile, answer |-> NotAsked]
    IN  IF line.form = "malformed" THEN same
        ELSE
        LET data == Loads(line)
            counted == [same EXCEPT !.total = total_questions + 1]
        IN  IF RedSkips(data, keep_dir) THEN counted
            ELSE
            LET keep_red_image_path ==
                    find_keep_red_image(extract_base_filename(data.image),
                                        keep_dir)
                gemini_answer ==
                    call_gemini_api(keep_dir, keep_red_image_path, reply)
                asked == [counted EXCEPT !.answer = gemini_answer]
            IN  CASE gemini_answer.kind = "quota" ->
                        [asked EXCEPT !.pc = "quota"]
                  [] gemini_answer.kind = "none" -> asked
                  [] gemini_answer.kind = "int" ->
                        LET done == [asked EXCEPT
                                       !.processed = processed_questions + 1]
                        IN  IF data.answer_index.type # "list" THEN done
                            ELSE IF AnswerMatches(gemini_answer.value,
                                                  data.answer_index)
                            THEN [done EXCEPT
                                    !.out = Append(outfile, Dumps(data)),
                                    !.filtered = filtered_questions + 1]
                            ELSE done

\* the records of the input
RedData(image, answer_index) ==
    [image |-> image, question |-> TRUE, options |-> TRUE,
     answer_index |-> answer_index]

ListIndex(seq) == [type |-> "list", value |-> seq]
\* a number where a list is expected; value holds the number alone
NumberIndex(n) == [type |-> "int", value |-> <<n>>]

R_a_jpg == RecordImagePath(A_jpg)
R_b_JPG == RecordImagePath(B_JPG)
R_a_png == RecordImagePath(A_png)
R_z_jpg == RecordImagePath(<<"z", ".", "j", "p", "g">>)
B_keep_red_jpg == <<"b">> \o KeepRedSuffix \o JpgExt

RedItems ==
    {RedData(R_a_jpg, ListIndex(<<0>>)),
     RedData(R_b_JPG, ListIndex(<<2, 1>>)),
     RedData(R_a_png, ListIndex(<<0>>)),
     RedData(R_z_jpg, ListIndex(<<0>>)),
     RedData(<<>>, ListIndex(<<0>>)),
     RedData(R_a_jpg, ListIndex(<<>>)),
     RedData(R_a_jpg, NumberIndex(1))}

RedLines ==
    {[form |-> "canonical", item |-> it] : it \in RedItems}
      \cup {[form |-> "malformed", item |-> <<>>]}

RedFiles == UNION {[1..n -> RedLines] : n \in 0..MaxRedLines}

\* the directory of the masked images: both present, or one of them a file
\* that is no image
KeepDirs ==
    {[n \in {A_keep_red_jpg, B_keep_red_jpg} |-> Decodable(LineImg)],
     [n \in {A_keep_red_jpg, B_keep_red_jpg} |->
        IF n = A_keep_red_jpg THEN Decodable(LineImg) ELSE Unreadable]}

E_429_Quota == <<"4", "2", "9", " ", "Q", "u", "o", "t", "a">>
E_429 == <<"4", "2", "9", " ", "b", "u", "s", "y">>
E_500_quota == <<"5", "0", "0", " ", "q", "u", "o", "t", "a">>
T_2 == <<"2">>

\* what the model does when called: a reply of some text, or an exception
\* of some message
RedReplies ==
    {[kind |-> "text", text |-> t] : t \in {T_0, T_2, T_12, T_none, <<>>}}
      \cup {[kind |-> "error", text |-> m] :
              m \in {E_429_Quota, E_429, E_500_quota}}

\* a line an earlier run left in the output
StaleLine == Dumps(RedData(R_z_jpg, ListIndex(<<0>>)))

InitRed ==
    /\ InitWith({<<>>})
    /\ FilterIdle
    /\ VqaIdle
    /\ QuiltIdle
    /\ red_env \in {"ok", "no_input", "no_dir"}
    /\ keep_dir \in KeepDirs
    /\ red_pc = "start"
    /\ infile \in RedFiles
    /\ line_num = 0
    /\ outfile \in {<<>>, <<StaleLine>>}
    /\ total_questions = 0
    /\ filtered_questions = 0
    /\ processed_questions = 0
    /\ gemini_answers = <<>>
    /\ red_stats = <<>>

\* up to the for loop: the two existence checks, then the output is opened
\* for writing
RedStart ==
    /\ red_pc = "start"
    /\ IF red_env = "ok"
       THEN /\ red_pc' = "loop"
            /\ outfile' = <<>>
       ELSE /\ red_pc' = "returned"
            /\ UNCHANGED outfile
    /\ UNCHANGED <<red_env, keep_dir, infile, line_num, total_questions,
                   filtered_questions, processed_questions, gemini_answers,
                   red_stats>>
    /\ UNCHANGED <<coverVars, filterVars, vqaVars, quiltVars>>

\* one iteration of the for loop
RedLine ==
    /\ red_pc = "loop"
    /\ line_num < Len(infile)
    /\ \E r \in {RedIteration(infile[line_num + 1], reply) :
                   reply \in RedReplies} :
          /\ red_pc' = r.pc
          /\ total_questions' = r.total
          /\ processed_questions' = r.processed
          /\ filtered_questions' = r.filtered
          /\ outfile' = r.out
          /\ gemini_answers' = Append(gemini_answers, r.answer)
    /\ line_num' = line_num + 1
    /\ UNCHANGED <<red_env, keep_dir, infile, red_stats>>
    /\ UNCHANGED <<coverVars, filterVars, vqaVars, quiltVars>>

\* after the loop, ended by the last line or by the break: the statistics
RedFinish ==
    /\ \/ red_pc = "loop" /\ line_num = Len(infile)
       \/ red_pc = "quota"
    /\ red_stats' = <<[total |-> total_questions,
                       processed |-> processed_questions,
                       filtered |-> filtered_questions]>>
    /\ red_pc' = "done"
    /\ UNCHANGED <<red_env, keep_dir, infile, line_num, outfile,
                   total_questions, filtered_questions, processed_questions,
                   gemini_answers>>
    /\ UNCHANGED <<coverVars, filterVars, vqaVars, quiltVars>>

NextRed ==
    \/ RedStart
    \/ RedLine
    \/ RedFinish

SpecRed == InitRed /\ [][NextRed]_vars

(***************************************************************************)
(* visualize_quilt_1m.py: the images of one directory are loaded when the  *)
(* script starts; the handlers of the interface read and change the        *)
(* selection state, a dictionary from file names to booleans.              *)
(***************************************************************************)
MaxQuiltFiles == 3 \* files of image_base_path
MaxCalls == 4      \* handler calls in one behaviour
max_images == 2    \* the number of images loaded at most (100 in the script)

\* the code points of the characters of the file names
CharCode(c) ==
    CASE c = "." -> 46 [] c = "/" -> 47 [] c = "G" -> 71 [] c = "J" -> 74
      [] c = "N" -> 78 [] c = "P" -> 80 [] c = "a" -> 97 [] c = "b" -> 98
      [] c = "c" -> 99 [] c = "g" -> 103 [] c = "j" -> 106 [] c = "n" -> 110
      [] c = "p" -> 112 [] c = "q" -> 113 [] c = "t" -> 116 [] c = "x" -> 120
      [] c = "z" -> 122

\* a < b for strings
RECURSIVE StrLess(_, _)
StrLess(a, b) ==
    IF b = <<>> THEN FALSE
    ELSE IF a = <<>> THEN TRUE
    ELSE IF a[1] # b[1] THEN CharCode(a[1]) < CharCode(b[1])
    ELSE StrLess(Tail(a), Tail(b))

\* sorted(...) of a set of strings
SortedStrings(S) ==
    CHOOSE f \in [1..Cardinality(S) -> S] :
        \A i, j \in 1..Cardinality(S) : i < j => StrLess(f[i], f[j])

image_base_path == <<"q">>

\* os.path.join(image_base_path, name)
QuiltPath(name) == image_base_path \o <<"/">> \o name

\* the glob of every extension in lower and in upper case
QuiltGlob(names) ==
    {QuiltPath(n) : n \in
        {n \in names : \E i \in DOMAIN image_extensions :
            \/ EndsWith(n, image_extensions[i])
            \/ EndsWith(n, Upper(image_extensions[i]))}}

\* sorted(image_files)[:max_images]
LoadImages(names) ==
    LET all == SortedStrings(QuiltGlob(names))
    IN  SubSeq(all, 1, IF Len(all) < max_images THEN Len(all) ELSE max_images)

A_txt == <<"a", ".", "t", "x", "t">>
QuiltNames == {A_jpg, A_png, B_JPG, C_Jpg, Z_png, A_txt}

\* what the script loads: nothing when image_base_path does not exist
QuiltLoads ==
    {<<>>} \cup {LoadImages(D) :
                   D \in {D \in SUBSET QuiltNames :
                            Cardinality(D) <= MaxQuiltFiles}}

\* the indexes a handler is called with
Indexes == (-2)..(MaxQuiltFiles)

\* dict.get(key, False)
GetState(state, filename) ==
    IF filename \in DOMAIN state THEN state[filename] ELSE FALSE

\* dict[key] = value
SetState(state, filename, value) ==
    [f \in DOMAIN state \cup {filename} |->
        IF f = filename THEN value ELSE state[f]]

\* sum(image_selection_state.values())
SelectedCount(state) == Cardinality({f \in DOMAIN state : state[f]})

OutOfRange == [message |-> "Index out of range", is_selected |-> FALSE,
               selected_count |-> 0]

\* index < 0 or index >= len(image_files) does not hold
IndexInRange(index, n) == index >= 0 /\ index < n

\* what view returns: the checkbox value and the count of the info line
view(files, state, index) ==
    IF ~IndexInRange(index, Len(files)) THEN OutOfRange
    ELSE [message |-> "shown",
          is_selected |-> GetState(state, Basename(files[index + 1])),
          selected_count |-> SelectedCount(state)]

\* the state after toggle_selection
toggle_selection(files, state, index, is_selected) ==
    IF ~IndexInRange(index, Len(files)) THEN state
    ELSE SetState(state, Basename(files[index + 1]), is_selected)

SelectKnown(files, state) == [f \in DOMAIN state |-> TRUE]

\* the state after select_all
select_all(files, state) ==
    [f \in DOMAIN state \cup {Basename(files[i]) : i \in DOMAIN files} |->
        IF f \in {Basename(files[i]) : i \in DOMAIN files} THEN TRUE
        ELSE state[f]]

InitQuilt ==
    /\ InitWith({<<>>})
    /\ FilterIdle
    /\ VqaIdle
    /\ RedIdle
    /\ quilt_files \in QuiltLoads
    /\ image_selection_state = <<>>
    /\ ncalls = 0
    /\ last_call = <<>>

View ==
    /\ ncalls < MaxCalls
    /\ \E index \in Indexes :
          last_call' = [handler |-> "view", index |-> index,
                        returned |-> view(quilt_files, image_selection_state,
                                          index)]
    /\ ncalls' = ncalls + 1
    /\ UNCHANGED <<quilt_files, image_selection_state>>
    /\ UNCHANGED <<coverVars, filterVars, vqaVars, redVars>>

ToggleSelection ==
    /\ ncalls < MaxCalls
    /\ \E index \in Indexes, is_selected \in BOOLEAN :
          LET state == toggle_selection(quilt_files, image_selection_state,
                                        index, is_selected)
          IN  /\ image_selection_state' = state
              /\ last_call' = [handler |-> "toggle_selection",
                               index |-> index,
                               returned |-> view(quilt_files, state, index)]
    /\ ncalls' = ncalls + 1
    /\ UNCHANGED quilt_files
    /\ UNCHANGED <<coverVars, filterVars, vqaVars, redVars>>

ClearSelection ==
    /\ ncalls < MaxCalls
    /\ image_selection_state' = <<>>
    /\ last_call' = [handler |-> "clear_selection", index |-> 0,
                     returned |-> [message |-> "Selection cleared!",
                                   is_selected |-> FALSE,
                                   selected_count |-> 0]]
    /\ ncalls' = ncalls + 1
    /\ UNCHANGED quilt_files
    /\ UNCHANGED <<coverVars, filterVars, vqaVars, redVars>>

SelectAll ==
    /\ ncalls < MaxCalls
    /\ image_selection_state' = select_all(quilt_files, image_selection_state)
    /\ last_call' = [handler |-> "select_all", index |-> 0,
                     returned |-> [message |-> "Selected all",
                                   is_selected |-> FALSE,
                                   selected_count |-> Len(quilt_files)]]
    /\ ncalls' = ncalls + 1
    /\ UNCHANGED quilt_files
    /\ UNCHANGED <<coverVars, filterVars, vqaVars, redVars>>

NextQuilt ==
    \/ View
    \/ ToggleSelection
    \/ ClearSelection
    \/ SelectAll

SpecQuilt == InitQuilt /\ [][NextQuilt]_vars

(***************************************************************************)
(* Properties.                                                             *)
(***************************************************************************)
\* the last mask_red_ellipse call decoded its image and ran the detection
Detected == call.exc \in {"none", "RuntimeError"}

Height(a) == Cardinality(DOMAIN a)
Width(a) == Cardinality(DOMAIN a[0])

MarkedCols(mask) == {x \in DOMAIN mask[0] : \E y \in DOMAIN mask : mask[y][x] # 0}
MarkedRows(mask) == {y \in DOMAIN mask : \E x \in DOMAIN mask[y] : mask[y][x] # 0}
NoMarkedPixel(mask) == \A y \in DOMAIN mask : \A x \in DOMAIN mask[y] : mask[y][x] = 0

\* C1: a colour mask without any marked pixel makes find_red_bbox, and so
\* mask_red_ellipse, raise the detection error; no box is returned for it.
C1_NoMarkerFails ==
    (Detected /\ NoMarkedPixel(call.red_mask)) => call.exc = "RuntimeError"

\* C2: a returned box is the minimal rectangle enclosing the marked pixels:
\* x_left/x_right are the least/greatest marked column and y_top/y_bottom
\* the least/greatest marked row.
C2_BoxIsMinimalEnclosing ==
    call.exc = "none" =>
        LET cols == MarkedCols(call.red_mask)
            rows == MarkedRows(call.red_mask)
        IN  /\ call.bbox[1] \in cols /\ call.bbox[3] \in cols
            /\ call.bbox[2] \in rows /\ call.bbox[4] \in rows
            /\ \A x \in cols : call.bbox[1] <= x /\ x <= call.bbox[3]
            /\ \A y \in rows : call.bbox[2] <= y /\ y <= call.bbox[4]

\* C3: a returned box has x_left < x_right and y_top < y_bottom, and a mask
\* whose marked pixels all lie in one column or in one row is rejected with
\* the detection error.
C3_BoxNeverDegenerate ==
    /\ call.exc = "none" =>
           call.bbox[1] < call.bbox[3] /\ call.bbox[2] < call.bbox[4]
    /\ (/\ Detected
        /\ ~NoMarkedPixel(call.red_mask)
        /\ \/ Cardinality(MarkedCols(call.red_mask)) = 1
           \/ Cardinality(MarkedRows(call.red_mask)) = 1)
       => call.exc = "RuntimeError"

\* a mask with two marked pixels in one column was rejected
C3_Witness ==
    /\ call.exc = "RuntimeError"
    /\ Cardinality(MarkedCols(call.red_mask)) = 1
    /\ Cardinality(MarkedRows(call.red_mask)) = 2

C5_EllipseGeometry ==
    call.exc = "none" =>
        LET x_left == call.bbox[1]
            y_top == call.bbox[2]
            x_right == call.bbox[3]
            y_bottom == call.bbox[4]
        IN  /\ 2 * call.center[1] <= x_left + x_right
            /\ x_left + x_right <= 2 * call.center[1] + 1
            /\ 2 * call.center[2] <= y_top + y_bottom
            /\ y_top + y_bottom <= 2 * call.center[2] + 1
            /\ 2 * call.axes[1] <= x_right - x_left
            /\ x_right - x_left <= 2 * call.axes[1] + 1
            /\ 2 * call.axes[2] <= y_bottom - y_top
            /\ y_bottom - y_top <= 2 * call.axes[2] + 1
            /\ call.bbox = <<10, 20, 110, 120>> =>
                   call.center = <<60, 70>> /\ call.axes = <<50, 50>>

\* the call that found the box (10, 20, 110, 120)
C5_Witness == call.exc = "none" /\ call.bbox = <<10, 20, 110, 120>>

Last(seq) == seq[Len(seq)]
Paths(cs) == [i \in DOMAIN cs |-> cs[i].path]
Names(lines) == [i \in DOMAIN lines |-> lines[i].name]
Failed(cs) == SelectSeq(cs, LAMBDA c : c.exc # "none")
FailLines(lines) == SelectSeq(lines, LAMBDA l : l.kind = "fail")
IsSummary(line, count, total) ==
    line.kind = "summary" /\ line.succeeded = count /\ line.total = total

\* C6: a file written by mask_red_ellipse is never among the files a batch
\* invocation selects, and every batch invocation over the directory selects
\* the set of files the first one selected.
C6_OutputsNeverReselected ==
    mode = "batch" =>
        /\ Range(image_files) \cap written = {}
        /\ Range(image_files) = first_files

\* a second batch invocation has selected its files, with outputs of an
\* earlier invocation in the directory
C6_Witness ==
    /\ mode = "batch" /\ batches = 2 /\ pc = "loop" /\ idx = 1
    /\ written # {}
    /\ written \subseteq DOMAIN fs

\* C7: the summary reports N - K successes out of N, where N images were
\* discovered and K of them failed, and one line naming the file is printed
\* for each failed file.
C7_SummaryArithmetic ==
    \A i \in DOMAIN log :
        log[i].kind = "summary" =>
            LET N == Len(image_files)
                K == Len(Failed(calls))
            IN  /\ log[i].succeeded = N - K
                /\ log[i].total = N
                /\ Names(FailLines(log)) = Paths(Failed(calls))

\* a summary of a batch with failures and successes
C7_Witness ==
    /\ mode = "batch" /\ pc = "exited" /\ log # <<>>
    /\ Last(log).kind = "summary"
    /\ Len(Failed(calls)) >= 1
    /\ Last(log).succeeded >= 1

\* C8: in a batch every discovered image is attempted exactly once, in
\* order, whatever the outcome of the images before it: inside the loop the
\* calls made are the images before the current one, and at the end they
\* are the discovered images, none of which occurs twice.
C8_EveryImageAttemptedOnce ==
    mode = "batch" =>
        /\ \A i, j \in DOMAIN image_files :
              image_files[i] = image_files[j] => i = j
        /\ pc = "loop" =>
              /\ idx \in 1..Len(image_files)
              /\ Paths(calls) = SubSeq(image_files, 1, idx - 1)
        /\ pc = "exited" => Paths(calls) = image_files

\* a batch whose first image failed and whose later image was processed
C8_Witness ==
    /\ mode = "batch" /\ pc = "exited"
    /\ Len(calls) >= 2
    /\ calls[1].exc # "none"
    /\ calls[2].exc = "none"

C10_AnyCaseExtensionSelected ==
    mode = "batch" =>
        \A n \in DOMAIN fs :
            (/\ Lower(Suffix(n)) \in Range(image_extensions)
             /\ ~EndsWith(Stem(n), MaskSuffix)
             /\ ~EndsWith(Stem(n), KeepRedSuffix))
            => n \in Range(image_files)

\* the step is a call of mask_red_ellipse, and the file it is given cannot
\* be decoded
CallOnUnreadable ==
    /\ call'.exc # "nocall"
    /\ \/ call'.image_path \notin DOMAIN fs
       \/ ~fs[call'.image_path].decodable

\* C11: a call on a path that cannot be loaded raises the unreadable-image
\* error before any detection is done, and writes no file.
C11_UnreadableFailsFirst ==
    [][CallOnUnreadable =>
          /\ call'.exc = "FileNotFoundError"
          /\ DOMAIN call'.red_mask = {}
          /\ DOMAIN call'.bbox = {}
          /\ fs' = fs
          /\ written' = written]_vars

\* the call on a file that exists and cannot be decoded has failed, and the
\* output path it would have written does not exist
C11_Witness ==
    /\ call.exc = "FileNotFoundError"
    /\ call.image_path \in DOMAIN fs
    /\ OutPath(call.image_path) \notin DOMAIN fs

\* the step is a call of mask_red_ellipse on a decodable image for which
\* find_red_bbox raises
CallDetectionFails ==
    /\ call'.exc # "nocall"
    /\ call'.image_path \in DOMAIN fs
    /\ fs[call'.image_path].decodable
    /\ BoxIsDegenerate(ScanBox(RedMask(fs[call'.image_path].img)))

\* C12: when the detection fails the call stops there: no ellipse mask is
\* built, no file is written, and no bounding box is returned or printed.
C12_NoMaskAfterDetectionFailure ==
    [][CallDetectionFails =>
          /\ call'.exc = "RuntimeError"
          /\ DOMAIN call'.bbox = {}
          /\ DOMAIN call'.ellipse_mask = {}
          /\ DOMAIN call'.img_bgr = {}
          /\ fs' = fs
          /\ written' = written
          /\ mode' = "single" => log' = <<>>
          /\ mode' = "batch" => log'[Len(log) + 1].kind = "fail"]_vars

\* a detection failure on a decodable image whose output does not exist
C12_Witness ==
    /\ call.exc = "RuntimeError"
    /\ call.image_path \in DOMAIN fs
    /\ fs[call.image_path].decodable
    /\ OutPath(call.image_path) \notin DOMAIN fs

\* C13: the output is written under the input stem followed by _keep_red
\* and .jpg whatever the input's extension, and that is the file
\* find_keep_red_image finds for the records of the image.
C13_OutputNameIsStemKeepRedJpg ==
    call.exc = "none" =>
        LET base == extract_base_filename(RecordImagePath(call.image_path))
        IN  /\ call.out_path = Stem(call.image_path) \o KeepRedSuffix \o JpgExt
            /\ call.out_path = TargetFilename(base)
            /\ find_keep_red_image(base, fs) = call.out_path

\* the step is a call of mask_red_ellipse that returned
CallReturned == call'.exc = "none"

\* C17: a successful call reads the input file only and writes the output
\* path only; the output path is not the input path, so the input file is
\* left as it was.
C17_OneReadOneWrite ==
    [][CallReturned =>
          LET in_path == call'.image_path
              out_path == call'.out_path
          IN  /\ out_path # in_path
              /\ call' = mask_red_ellipse([q \in {in_path} |-> fs[in_path]], in_path)
              /\ DOMAIN fs' = DOMAIN fs \cup {out_path}
              /\ \A q \in DOMAIN fs \ {out_path} : fs'[q] = fs[q]
              /\ fs'[in_path] = fs[in_path]
              /\ fs'[out_path] = JpegOf(call'.img_bgr)
              /\ written' = written \cup {out_path}]_vars

\* a call has returned with other files in the directory: its input and its
\* output are two files of the directory
C17_Witness ==
    /\ call.exc = "none"
    /\ call.image_path \in DOMAIN fs
    /\ call.out_path \in DOMAIN fs
    /\ Cardinality(DOMAIN fs) >= 3

\* C14: mask_red_ellipse turns the pixels inside the ellipse black: where
\* the ellipse mask is 255 the result is (0,0,0).
C14_InsideEllipseBlack ==
    call.exc = "none" =>
        \A y \in DOMAIN call.img_bgr : \A x \in DOMAIN call.img_bgr[y] :
            call.ellipse_mask[y][x] = 255 => call.img_bgr[y][x] = Black

\* C15: mask_red_ellipse saves its result as <original_stem>_mask.jpg next
\* to the input and returns that path.
C15_SavedAsStemMaskJpg ==
    call.exc = "none" =>
        /\ call.out_path = Stem(call.image_path) \o MaskSuffix \o JpgExt
        /\ call.out_path \in DOMAIN fs

\* C16: in single-image mode a failure of mask_red_ellipse ends the run with
\* that exception and nothing printed; the bounding box and the saved path
\* are printed on success only.
C16_SingleModePropagates ==
    mode = "single" =>
        /\ pc = "exited"
        /\ call.exc # "none" => (exit_status = call.exc /\ log = <<>>)
        /\ call.exc = "none" =>
              /\ exit_status = "ok"
              /\ log = <<[kind |-> "bbox", bbox |-> call.bbox],
                         [kind |-> "saved", saved |-> call.out_path]>>

\* a single-image run ended by the detection error
C16_Witness ==
    /\ mode = "single"
    /\ call.exc = "RuntimeError"
    /\ exit_status = "RuntimeError"

\* the number of times n occurs in s
Count(n, s) == Cardinality({i \in DOMAIN s : s[i] = n})

\* the reply names exactly the options of answer_index and does not say
\* 'cannot answer'
AnswersCorrectly(reply, item) ==
    /\ ~reply.raises
    /\ ~Contains(TextLower(reply.text), CannotAnswerText)
    /\ LET nums == DigitRuns(reply.text, 1, <<>>)
       IN  \A n \in Range(nums) \cup Range(item.answer_index) :
               Count(n, nums) = Count(n, item.answer_index)

\* the records of the first n questions asked that the model did not
\* answer correctly, in input order
RECURSIVE NotAnswered(_)
NotAnswered(n) ==
    IF n = 0 THEN <<>>
    ELSE NotAnswered(n - 1) \o
           (IF AnswersCorrectly(replies[n], fin[n].item) THEN <<>>
            ELSE <<fin[n].item>>)

\* C18: filter_onlyqa drops a question exactly when the model returns the
\* answer matching its answer_index; the other questions asked are written
\* in input order and kept_count is the number of records written.
C18_DropsExactlyCorrectAnswers ==
    script = "onlyqa" =>
        /\ [k \in DOMAIN fout |-> Loads(fout[k])] = NotAnswered(Len(replies))
        /\ kept_count = Len(fout)
        /\ filter_pc = "done" =>
              (Len(replies) = Len(fin) /\ stats = <<[total |-> Len(fin),
                                                     kept |-> Len(fout)]>>)

\* a finished run that dropped a question and kept one the model could not
\* answer
C18_Witness ==
    /\ script = "onlyqa"
    /\ filter_pc = "done"
    /\ \E i, j \in DOMAIN replies :
          /\ AnswersCorrectly(replies[i], fin[i].item)
          /\ ~replies[j].raises
          /\ Contains(TextLower(replies[j].text), CannotAnswerText)
    /\ Len(fout) = 1

\* the model call for the question at line_no raises
ModelCallRaises ==
    /\ filter_pc = "loop"
    /\ Len(replies') = Len(replies) + 1
    /\ replies'[Len(replies')].raises

\* C19: in both filter scripts a question whose model call raises is kept:
\* its record is written to the output and the loop goes on to the next
\* question.
C19_ExceptionKeepsQuestion ==
    [][ModelCallRaises =>
         /\ Len(fout') = Len(fout) + 1
         /\ SubSeq(fout', 1, Len(fout)) = fout
         /\ Loads(fout'[Len(fout')]) = Loads(fin[line_no])
         /\ line_no' = line_no + 1
         /\ filter_pc' = "loop"
         /\ fin' = fin]_vars

\* filter_gemini went on to the next question after a call that raised
C19_Witness ==
    /\ script = "gemini"
    /\ Len(replies) = 2
    /\ replies[1].raises
    /\ ~replies[2].raises
    /\ Loads(fout[1]) = Loads(fin[1])
    /\ fin[1].form = "compact"

\* s occurs in t as a block of consecutive elements
IsBlockOf(s, t) ==
    \E k \in 0..(Len(t) - Len(s)) : SubSeq(t, k + 1, k + Len(s)) = s

\* C20: in realtime-save mode the records of an image are in the output
\* file, and the file is closed, before the next image is processed; at any
\* point, also after an interruption, the file holds the records of every
\* image completed so far.
C20_RealtimeSaveKeepsCompleted ==
    realtime_save =>
        /\ IsBlockOf(completed, disk)
        /\ vqa_pc = "images" => (buf = <<>> /\ ~is_open)

\* a realtime run interrupted while the second image is written, after the
\* first image was completed
C20_Witness ==
    /\ realtime_save
    /\ vqa_pc = "interrupted"
    /\ img_no = 2
    /\ item_no = 2
    /\ Len(completed) = MaxItems
    /\ Len(disk) > Len(completed)

\* C21: the ellipse of an accepted box stays inside the box: the centre
\* minus the semi-axis is the left (top) edge, the centre plus the semi-axis
\* is the right (bottom) edge or one less, and every pixel of the ellipse
\* mask lies in the box.
C21_EllipseInsideBox ==
    call.exc = "none" =>
        LET x_left == call.bbox[1]
            y_top == call.bbox[2]
            x_right == call.bbox[3]
            y_bottom == call.bbox[4]
        IN  /\ call.center[1] - call.axes[1] = x_left
            /\ call.center[1] + call.axes[1] \in {x_right, x_right - 1}
            /\ call.center[2] - call.axes[2] = y_top
            /\ call.center[2] + call.axes[2] \in {y_bottom, y_bottom - 1}
            /\ \A y \in DOMAIN call.ellipse_mask :
                 \A x \in DOMAIN call.ellipse_mask[y] :
                    call.ellipse_mask[y][x] = 255 =>
                        /\ x_left <= x /\ x <= x_right
                        /\ y_top <= y /\ y <= y_bottom

\* a box of odd width and even height: the ellipse ends one short of the
\* right edge and on the bottom edge
C21_Witness ==
    /\ call.exc = "none"
    /\ call.bbox[3] - call.bbox[1] = 1
    /\ call.bbox[4] - call.bbox[2] = 2
    /\ call.center[1] + call.axes[1] = call.bbox[3] - 1
    /\ call.center[2] + call.axes[2] = call.bbox[4]

\* C22: both semi-axes of the ellipse of an accepted box are at least 1.
C22_AxesAtLeastOne ==
    call.exc = "none" => (call.axes[1] >= 1 /\ call.axes[2] >= 1)

\* C23: in one batch run two different input files never have the same
\* output path, and no two calls of the run write the same output path.
C23_OutputPathsDistinct ==
    mode = "batch" =>
        /\ \A i, j \in DOMAIN image_files :
              image_files[i] # image_files[j] =>
                  OutPath(image_files[i]) # OutPath(image_files[j])
        /\ \A i, j \in DOMAIN calls :
              (i # j /\ calls[i].exc = "none" /\ calls[j].exc = "none") =>
                  OutPath(calls[i].path) # OutPath(calls[j].path)

\* the model was called on line i and its answer is an option of the
\* answer_index of the line
AnsweredWithOption(i) ==
    /\ gemini_answers[i].kind = "int"
    /\ infile[i].item.answer_index.type = "list"
    /\ gemini_answers[i].value \in Range(infile[i].item.answer_index.value)

\* the records of the first n lines that the model answered with an option
\* of their answer_index
RECURSIVE Matched(_)
Matched(n) ==
    IF n = 0 THEN <<>>
    ELSE Matched(n - 1) \o
           (IF AnsweredWithOption(n) THEN <<infile[n].item>> ELSE <<>>)

\* C24: in filter_onlyred filtered_questions <= processed_questions <=
\* total_questions, the output holds filtered_questions records, which are
\* the records of the lines the model answered with a member of their
\* answer_index, and a QUOTA_EXCEEDED answer is the last line read.
C24_CountersAndQuota ==
    red_pc \in {"loop", "quota", "done"} =>
        /\ filtered_questions <= processed_questions
        /\ processed_questions <= total_questions
        /\ total_questions <= line_num
        /\ Len(outfile) = filtered_questions
        /\ Len(gemini_answers) = line_num
        /\ [k \in DOMAIN outfile |-> Loads(outfile[k])] = Matched(line_num)
        /\ \A i \in DOMAIN gemini_answers :
              gemini_answers[i].kind = "quota" =>
                  /\ i = line_num
                  /\ red_pc \in {"quota", "done"}
        /\ red_pc = "quota" => gemini_answers[line_num].kind = "quota"

\* a finished run that wrote the first line, was stopped by the quota on
\* the second and left the third unread
C24_Witness ==
    /\ red_pc = "done"
    /\ Len(infile) = 3
    /\ line_num = 2
    /\ gemini_answers[2].kind = "quota"
    /\ filtered_questions = 1
    /\ red_stats = <<[total |-> 2, processed |-> 1, filtered |-> 1]>>

\* the file names the selection state marks as selected
Selected(state) == {f \in DOMAIN state : state[f]}

\* the file names of the loaded images
Loaded == {Basename(quilt_files[i]) : i \in DOMAIN quilt_files}

\* C25: after every handler call the selected images are loaded images;
\* view and a toggle_selection with an out-of-range index leave the
\* selection state as it was; clear_selection leaves no image selected and
\* select_all leaves every loaded image selected.
C25_SelectionWithinLoaded ==
    [][ncalls' = ncalls + 1 =>
         /\ Selected(image_selection_state') \subseteq Loaded
         /\ last_call'.handler = "view" =>
               image_selection_state' = image_selection_state
         /\ (/\ last_call'.handler = "toggle_selection"
             /\ ~(0 <= last_call'.index /\ last_call'.index < Len(quilt_files)))
            => image_selection_state' = image_selection_state
         /\ last_call'.handler = "clear_selection" =>
               Selected(image_selection_state') = {}
         /\ last_call'.handler = "select_all" =>
               Selected(image_selection_state') = Loaded]_vars

\* the last of MaxCalls calls was select_all, over as many loaded images as
\* the script loads at most
C25_Witness ==
    /\ ncalls = MaxCalls
    /\ last_call.handler = "select_all"
    /\ Len(quilt_files) = max_images
    /\ Selected(image_selection_state) = Loaded

====
